---- MODULE Spec2Model ----
(***************************************************************************)
(* Model of the iospw keychain bridge of keyring-rs                        *)
(* (keyring-tester/iospw/iospw.h): KeyringSetPassword, KeyringCopyPassword *)
(* and KeyringDeletePassword over the platform keychain, together with the *)
(* caller's handling of the CFData objects that KeyringCopyPassword hands  *)
(* out.                                                                    *)
(***************************************************************************)
EXTENDS Integers, Sequences, FiniteSets, TLC

VARIABLES keychain, origin, written, bufs, held, last, calls

vars == <<keychain, origin, written, bufs, held, last, calls>>

(***************************************************************************)
(* Bounds and input sets                                                   *)
(***************************************************************************)
\* longest password text, in code points
MaxLen == 2
\* CFData objects the caller holds at the same time
MaxHeld == 2

Services == {"", "a"}
Accounts == {"", "a"}
\* (service, account) pairs the callers use; both components may be empty
Keys == (Services \X Accounts) \ {<<"", "">>}
\* the keys of the caller of Spec, of SpecOwn and of SpecConc
TwoKeys == {<<"", "a">>, <<"a", "a">>}
OneKey == {<<"a", "">>}

\* 'A' (one byte in UTF-8) and 'e acute' (two bytes in UTF-8)
CodePoints == {65, 233}

Texts == UNION {[1..n -> CodePoints] : n \in 0..MaxLen}
\* "A" and "e acute"
TwoTexts == {<<65>>, <<233>>}

\* entries written to the keychain by other clients before the run:
\* a byte that is never valid, a lead byte without continuation, plain text
PreExisting == {<<255>>, <<195, 65>>, <<65>>}

(***************************************************************************)
(* UTF-8                                                                   *)
(***************************************************************************)
EncodeCodePoint(cp) ==
    IF cp < 128 THEN <<cp>>
    ELSE <<192 + (cp \div 64), 128 + (cp % 64)>>

RECURSIVE UTF8Encode(_)
UTF8Encode(text) ==
    IF text = <<>> THEN <<>>
    ELSE EncodeCodePoint(Head(text)) \o UTF8Encode(Tail(text))

IsContinuation(b) == b >= 128 /\ b <= 191

\* the decoder covers the one- and two-byte forms; the bytes of the model
\* never start a three- or four-byte form (224..244)
RECURSIVE IsValidUTF8(_)
IsValidUTF8(bytes) ==
    IF bytes = <<>> THEN TRUE
    ELSE IF Head(bytes) < 128 THEN IsValidUTF8(Tail(bytes))
    ELSE IF Head(bytes) >= 194 /\ Head(bytes) <= 223
         THEN /\ Len(bytes) >= 2
              /\ IsContinuation(bytes[2])
              /\ IsValidUTF8(Tail(Tail(bytes)))
    ELSE FALSE

\* defined for valid input only
RECURSIVE UTF8Decode(_)
UTF8Decode(bytes) ==
    IF bytes = <<>> THEN <<>>
    ELSE IF Head(bytes) < 128
         THEN <<Head(bytes)>> \o UTF8Decode(Tail(bytes))
    ELSE <<(Head(bytes) - 192) * 64 + (bytes[2] - 128)>>
             \o UTF8Decode(Tail(Tail(bytes)))

(***************************************************************************)
(* Statuses                                                                *)
(***************************************************************************)
errSecSuccess == "errSecSuccess"
errSecItemNotFound == "errSecItemNotFound"
errSecDecode == "errSecDecode"
\* any other status ("an appropriate error status")
errSecOther == "errSecOther"

Statuses == {errSecSuccess, errSecItemNotFound, errSecDecode, errSecOther}

(***************************************************************************)
(* The keychain (secure-storage backend)                                   *)
(***************************************************************************)
NoFault == "none"
BackendErrors == {"unavailable", "denied"}
Faults == {NoFault} \cup BackendErrors

Absent == [present |-> FALSE, bytes |-> <<>>]
Present(bytes) == [present |-> TRUE, bytes |-> bytes]

\* fault: the item is addressed by service and account run together
SlotOf_Concat(service, account) == <<service \o account>>

\* the keychain item addressed by a service and an account
SlotOf(service, account) == <<service, account>>

Slots == {SlotOf(k[1], k[2]) : k \in Keys}

\* fault: a request that fails has already written the first half of the bytes
upsert_PartialOnFault(kc, slot, bytes, fault) ==
    IF fault = NoFault
    THEN [kc |-> [kc EXCEPT ![slot] = Present(bytes)], res |-> "ok"]
    ELSE [kc |-> [kc EXCEPT ![slot] =
                     Present(SubSeq(bytes, 1, Len(bytes) \div 2))],
          res |-> fault]

\* fault: an entry is overwritten in place, and the tail of a longer old
\* value stays
upsert_InPlace(kc, slot, bytes, fault) ==
    IF fault = NoFault
    THEN [kc |-> [kc EXCEPT ![slot] =
                     Present(bytes \o SubSeq(kc[slot].bytes, Len(bytes) + 1,
                                             Len(kc[slot].bytes)))],
          res |-> "ok"]
    ELSE [kc |-> kc, res |-> fault]

upsert(kc, slot, bytes, fault) ==
    IF fault = NoFault
    THEN [kc |-> [kc EXCEPT ![slot] = Present(bytes)], res |-> "ok"]
    ELSE [kc |-> kc, res |-> fault]

lookup(kc, slot, fault) ==
    IF fault # NoFault THEN [res |-> fault, bytes |-> <<>>]
    ELSE IF kc[slot].present THEN [res |-> "found", bytes |-> kc[slot].bytes]
    ELSE [res |-> "absent", bytes |-> <<>>]

erase(kc, slot, fault) ==
    IF fault # NoFault THEN [kc |-> kc, res |-> fault]
    ELSE IF kc[slot].present
         THEN [kc |-> [kc EXCEPT ![slot] = Absent], res |-> "ok"]
    ELSE [kc |-> kc, res |-> "absent"]


(***************************************************************************)
(* CFData objects in the caller's address space                            *)
(***************************************************************************)
Free == [present |-> FALSE, bytes |-> <<>>]

NoSlot == <<>>
NilRef == [kind |-> "nil", id |-> 0, slot |-> NoSlot]
BufRef(i) == [kind |-> "buf", id |-> i, slot |-> NoSlot]
\* a reference to the keychain's own copy; no operation of the bridge makes one
SlotRef(slot) == [kind |-> "slot", id |-> 0, slot |-> slot]

\* what a reference designates
Deref(kc, heap, ref) ==
    IF ref.kind = "buf" THEN heap[ref.id]
    ELSE IF ref.kind = "slot" THEN kc[ref.slot]
    ELSE Free

FreeIds(heap) == {i \in DOMAIN heap : ~heap[i].present}

\* the allocator hands out the lowest free object
NewId(heap) == CHOOSE i \in FreeIds(heap) : \A j \in FreeIds(heap) : i <= j

Zeroize(bytes) == [i \in 1..Len(bytes) |-> 0]

(***************************************************************************)
(* The three entry points: status and effect of each                       *)
(***************************************************************************)
\* fault: an entry is created, never updated
SetEffect_CreateOnly(kc, slot, password, fault) ==
    IF fault = NoFault /\ kc[slot].present
    THEN [kc |-> kc, res |-> "ok"]
    ELSE upsert(kc, slot, UTF8Encode(password), fault)

\* "Creates or updates a keychain entry": the password text is stored as
\* its UTF-8 bytes
SetEffect(kc, slot, password, fault) ==
    upsert(kc, slot, UTF8Encode(password), fault)

SetStatus(res) ==
    IF res = "ok" THEN errSecSuccess ELSE errSecOther

\* fault: every failure of the lookup is reported as a missing entry
CopyStatus_ErrorIsNotFound(found) ==
    IF found.res = "found"
    THEN IF IsValidUTF8(found.bytes) THEN errSecSuccess ELSE errSecDecode
    ELSE errSecItemNotFound

\* found: errSecSuccess or errSecDecode; no entry: errSecItemNotFound;
\* otherwise an error status
CopyStatus(found) ==
    IF found.res = "found"
    THEN IF IsValidUTF8(found.bytes) THEN errSecSuccess ELSE errSecDecode
    ELSE IF found.res = "absent" THEN errSecItemNotFound
    ELSE errSecOther

\* fault: a password that is not UTF-8 is not handed out
CopyOutput_DropsUndecodable(heap, slot, found, wantsOutput) ==
    IF wantsOutput /\ found.res = "found" /\ IsValidUTF8(found.bytes)
    THEN [ref |-> BufRef(NewId(heap)),
          heap |-> [heap EXCEPT ![NewId(heap)] = Present(found.bytes)]]
    ELSE [ref |-> NilRef, heap |-> heap]

\* fault: a CFData is allocated whether or not the caller asked for it
CopyOutput_IgnoresNil(heap, slot, found, wantsOutput) ==
    IF found.res = "found"
    THEN [ref |-> BufRef(NewId(heap)),
          heap |-> [heap EXCEPT ![NewId(heap)] = Present(found.bytes)]]
    ELSE [ref |-> NilRef, heap |-> heap]

\* fault: the caller is handed the keychain's own copy
CopyOutput_Aliases(heap, slot, found, wantsOutput) ==
    IF wantsOutput /\ found.res = "found"
    THEN [ref |-> SlotRef(slot), heap |-> heap]
    ELSE [ref |-> NilRef, heap |-> heap]

\* password = nil: nothing is output.  Otherwise, if found, a new CFData is
\* allocated, the password's bytes are copied into it and the CFDataRef is
\* set to it
CopyOutput(heap, slot, found, wantsOutput) ==
    IF wantsOutput /\ found.res = "found"
    THEN [ref |-> BufRef(NewId(heap)),
          heap |-> [heap EXCEPT ![NewId(heap)] = Present(found.bytes)]]
    ELSE [ref |-> NilRef, heap |-> heap]

\* fault: the entry is reported deleted and stays
DeleteEffect_KeepsEntry(kc, slot, fault) ==
    [kc |-> kc, res |-> erase(kc, slot, fault).res]

DeleteEffect(kc, slot, fault) == erase(kc, slot, fault)

\* fault: deleting a missing entry is reported as a success
DeleteStatus_AbsentIsSuccess(res) ==
    IF res = "ok" \/ res = "absent" THEN errSecSuccess ELSE errSecOther

DeleteStatus(res) ==
    IF res = "ok" THEN errSecSuccess
    ELSE IF res = "absent" THEN errSecItemNotFound
    ELSE errSecOther

(***************************************************************************)
(* State                                                                   *)
(***************************************************************************)
Callers == {"c1", "c2"}

NoCall == [phase |-> "idle", op |-> "", service |-> "", account |-> "",
           password |-> <<>>, wants |-> FALSE, status |-> "", value |-> NilRef]

NoOp == [op |-> "", keyed |-> FALSE, service |-> "", account |-> "",
         password |-> <<>>, wants |-> FALSE, fault |-> NoFault, status |-> "",
         value |-> NilRef, prior |-> ""]

\* before the run the keychain holds what other clients left under the keys
InitOn(keys) ==
    /\ keychain \in [Slots -> {Absent} \cup {Present(b) : b \in PreExisting}]
    /\ \A s \in Slots \ {SlotOf(k[1], k[2]) : k \in keys} : ~keychain[s].present
    /\ origin = [s \in Slots |-> IF keychain[s].present THEN "foreign" ELSE "none"]
    /\ bufs = [i \in 1..MaxHeld |-> Free]
    /\ held = {}
    /\ last = NoOp
    /\ calls = [c \in Callers |-> NoCall]

\* history, kept by SpecConc: the values an entry has held
NothingWritten == [s \in Slots |-> {}]

InitiallyWritten ==
    [s \in Slots |-> IF keychain[s].present THEN {keychain[s].bytes} ELSE {}]

Init == InitOn(TwoKeys) /\ written = NothingWritten

\* history: how the entry of a slot came to be, as the statuses returned tell
OriginAfterSet(o, slot, status) ==
    IF status = errSecSuccess THEN [o EXCEPT ![slot] = "set"] ELSE o

OriginAfterDelete(o, slot, status) ==
    IF status = errSecSuccess THEN [o EXCEPT ![slot] = "none"] ELSE o

\* history: what the call before this one did, when it was on the same key
SameKey(service, account) ==
    last.keyed /\ last.service = service /\ last.account = account

PriorOfSet(service, account, password) ==
    IF /\ SameKey(service, account) /\ last.op = "Set"
       /\ last.status = errSecSuccess /\ last.password # password
    THEN "set" ELSE ""

PriorOfCopy(service, account) ==
    IF ~SameKey(service, account) THEN ""
    ELSE IF last.op = "Set"
         THEN IF last.status # errSecSuccess THEN "setfail"
              ELSE IF last.prior = "set" THEN "set2" ELSE "set"
    ELSE IF last.op = "Delete"
         THEN IF last.status = errSecSuccess /\ last.prior = "set"
              THEN "delete" ELSE ""
    ELSE IF last.op = "Copy"
         THEN IF ~last.wants /\ last.status \in {errSecSuccess, errSecDecode}
              THEN "probe" ELSE ""
    ELSE IF last.op = "Mutate" THEN "mutated"
    ELSE IF last.op = "Release" THEN "released"
    ELSE ""

PriorOfDelete(service, account) ==
    IF /\ SameKey(service, account) /\ last.op = "Set"
       /\ last.status = errSecSuccess
    THEN "set" ELSE ""

\* the record of a caller's step on a value: it keeps the key of the call
\* that made the value when that call is the step before
OnValue(op, ref) ==
    IF last.value = ref /\ last.op \in {"Copy", "Mutate"}
    THEN [last EXCEPT !.op = op, !.prior = ""]
    ELSE [NoOp EXCEPT !.op = op, !.value = ref]

(***************************************************************************)
(* Operations, one caller                                                  *)
(***************************************************************************)
KeyringSetPassword(service, account, password, fault) ==
    LET slot == SlotOf(service, account)
        r == SetEffect(keychain, slot, password, fault)
        status == SetStatus(r.res)
    IN /\ keychain' = r.kc
       /\ origin' = OriginAfterSet(origin, slot, status)
       /\ last' = [op |-> "Set", keyed |-> TRUE,
                   service |-> service, account |-> account,
                   password |-> IF status = errSecSuccess THEN password ELSE <<>>,
                   wants |-> FALSE, fault |-> fault, status |-> status,
                   value |-> NilRef,
                   prior |-> IF status = errSecSuccess
                             THEN PriorOfSet(service, account, password) ELSE ""]
       /\ UNCHANGED <<written, bufs, held, calls>>

KeyringCopyPassword(service, account, wantsOutput, fault) ==
    LET slot == SlotOf(service, account)
        found == lookup(keychain, slot, fault)
        status == CopyStatus(found)
        out == CopyOutput(bufs, slot, found, wantsOutput)
    IN /\ wantsOutput => Cardinality(held) < MaxHeld
       /\ bufs' = out.heap
       /\ held' = IF out.ref = NilRef THEN held ELSE held \cup {out.ref}
       /\ last' = [op |-> "Copy", keyed |-> TRUE,
                   service |-> service, account |-> account,
                   password |-> <<>>, wants |-> wantsOutput, fault |-> fault,
                   status |-> status, value |-> out.ref, prior |-> PriorOfCopy(service, account)]
       /\ UNCHANGED <<keychain, origin, written, calls>>

KeyringDeletePassword(service, account, fault) ==
    LET slot == SlotOf(service, account)
        r == DeleteEffect(keychain, slot, fault)
        status == DeleteStatus(r.res)
    IN /\ keychain' = r.kc
       /\ origin' = OriginAfterDelete(origin, slot, status)
       /\ last' = [op |-> "Delete", keyed |-> TRUE,
                   service |-> service, account |-> account,
                   password |-> <<>>, wants |-> FALSE, fault |-> fault,
                   status |-> status, value |-> NilRef,
                   prior |-> PriorOfDelete(service, account)]
       /\ UNCHANGED <<written, bufs, held, calls>>

\* the caller overwrites the bytes of a value it was given
Mutate(ref) ==
    /\ ref \in held
    /\ Deref(keychain, bufs, ref).present
    /\ bufs' = IF ref.kind = "buf"
               THEN [bufs EXCEPT ![ref.id] = Present(Zeroize(bufs[ref.id].bytes))]
               ELSE bufs
    /\ keychain' = IF ref.kind = "slot"
                   THEN [keychain EXCEPT ![ref.slot] =
                            Present(Zeroize(keychain[ref.slot].bytes))]
                   ELSE keychain
    /\ last' = OnValue("Mutate", ref)
    /\ UNCHANGED <<origin, written, held, calls>>

\* the caller releases a value it was given
Release(ref) ==
    /\ ref \in held
    /\ held' = held \ {ref}
    /\ bufs' = IF ref.kind = "buf" THEN [bufs EXCEPT ![ref.id] = Free] ELSE bufs
    /\ keychain' = IF ref.kind = "slot"
                   THEN [keychain EXCEPT ![ref.slot] = Absent]
                   ELSE keychain
    /\ last' = OnValue("Release", ref)
    /\ UNCHANGED <<origin, written, calls>>

Refs == {BufRef(i) : i \in 1..MaxHeld} \cup {SlotRef(s) : s \in Slots}

\* one caller on two keys, who releases what it was given before its next
\* call
Next ==
    \/ \E k \in TwoKeys, t \in Texts, f \in Faults :
          held = {} /\ KeyringSetPassword(k[1], k[2], t, f)
    \/ \E k \in TwoKeys, w \in BOOLEAN, f \in Faults :
          held = {} /\ KeyringCopyPassword(k[1], k[2], w, f)
    \/ \E k \in TwoKeys, f \in Faults :
          held = {} /\ KeyringDeletePassword(k[1], k[2], f)
    \/ \E r \in Refs : Mutate(r)
    \/ \E r \in Refs : Release(r)

Spec == Init /\ [][Next]_vars

\* one caller on every key
InitKeys == InitOn(Keys) /\ written = NothingWritten

NextKeys ==
    \/ \E k \in Keys, t \in TwoTexts, f \in Faults :
          held = {} /\ KeyringSetPassword(k[1], k[2], t, f)
    \/ \E k \in Keys, w \in BOOLEAN, f \in Faults :
          held = {} /\ KeyringCopyPassword(k[1], k[2], w, f)
    \/ \E k \in Keys, f \in Faults :
          held = {} /\ KeyringDeletePassword(k[1], k[2], f)
    \/ \E r \in Refs : Release(r)

SpecKeys == InitKeys /\ [][NextKeys]_vars

\* one caller on one key, who keeps up to MaxHeld values at a time
InitOwn == InitOn(OneKey) /\ written = NothingWritten

NextOwn ==
    \/ \E k \in OneKey, t \in TwoTexts : KeyringSetPassword(k[1], k[2], t, NoFault)
    \/ \E k \in OneKey, w \in BOOLEAN : KeyringCopyPassword(k[1], k[2], w, NoFault)
    \/ \E k \in OneKey : KeyringDeletePassword(k[1], k[2], NoFault)
    \/ \E r \in Refs : Mutate(r)
    \/ \E r \in Refs : Release(r)

SpecOwn == InitOwn /\ [][NextOwn]_vars

(***************************************************************************)
(* Operations, concurrent callers: a call is one round trip to the         *)
(* keychain, which serves one request at a time                            *)
(***************************************************************************)
Invoke(c, op, service, account, password, wantsOutput) ==
    /\ calls[c].phase = "idle"
    /\ calls' = [calls EXCEPT ![c] =
                    [phase |-> "pending", op |-> op, service |-> service,
                     account |-> account, password |-> password,
                     wants |-> wantsOutput, status |-> "", value |-> NilRef]]
    /\ UNCHANGED <<keychain, origin, written, bufs, held, last>>

PerformSet(c, fault) ==
    LET call == calls[c]
        slot == SlotOf(call.service, call.account)
        r == SetEffect(keychain, slot, call.password, fault)
        status == SetStatus(r.res)
    IN /\ call.phase = "pending" /\ call.op = "Set"
       /\ keychain' = r.kc
       /\ origin' = OriginAfterSet(origin, slot, status)
       /\ written' = IF status = errSecSuccess
                     THEN [written EXCEPT ![slot] = @ \cup {UTF8Encode(call.password)}]
                     ELSE written
       /\ calls' = [calls EXCEPT ![c].phase = "returned", ![c].status = status]
       /\ UNCHANGED <<bufs, held, last>>

PerformCopy(c, fault) ==
    LET call == calls[c]
        slot == SlotOf(call.service, call.account)
        found == lookup(keychain, slot, fault)
        out == CopyOutput(bufs, slot, found, call.wants)
    IN /\ call.phase = "pending" /\ call.op = "Copy"
       /\ call.wants => Cardinality(held) < MaxHeld
       /\ bufs' = out.heap
       /\ held' = IF out.ref = NilRef THEN held ELSE held \cup {out.ref}
       /\ calls' = [calls EXCEPT ![c].phase = "returned",
                                 ![c].status = CopyStatus(found),
                                 ![c].value = out.ref]
       /\ UNCHANGED <<keychain, origin, written, last>>

PerformDelete(c, fault) ==
    LET call == calls[c]
        slot == SlotOf(call.service, call.account)
        r == DeleteEffect(keychain, slot, fault)
        status == DeleteStatus(r.res)
    IN /\ call.phase = "pending" /\ call.op = "Delete"
       /\ keychain' = r.kc
       /\ origin' = OriginAfterDelete(origin, slot, status)
       /\ calls' = [calls EXCEPT ![c].phase = "returned", ![c].status = status]
       /\ UNCHANGED <<written, bufs, held, last>>

\* the caller takes the result and releases the value it was given
Return(c) ==
    LET ref == calls[c].value
    IN /\ calls[c].phase = "returned"
       /\ calls' = [calls EXCEPT ![c] = NoCall]
       /\ held' = held \ {ref}
       /\ bufs' = IF ref.kind = "buf" THEN [bufs EXCEPT ![ref.id] = Free] ELSE bufs
       /\ UNCHANGED <<keychain, origin, written, last>>

InitConc == InitOn(OneKey) /\ written = InitiallyWritten

NextConc ==
    \/ \E c \in Callers, k \in OneKey, t \in TwoTexts :
          Invoke(c, "Set", k[1], k[2], t, FALSE)
    \/ \E c \in Callers, k \in OneKey :
          Invoke(c, "Copy", k[1], k[2], <<>>, TRUE)
    \/ \E c \in Callers, k \in OneKey :
          Invoke(c, "Delete", k[1], k[2], <<>>, FALSE)
    \/ \E c \in Callers, f \in Faults : PerformSet(c, f)
    \/ \E c \in Callers, f \in Faults : PerformCopy(c, f)
    \/ \E c \in Callers, f \in Faults : PerformDelete(c, f)
    \/ \E c \in Callers : Return(c)

SpecConc == InitConc /\ [][NextConc]_vars

(***************************************************************************)
(* What a call would return in a given keychain, absent a backend fault    *)
(***************************************************************************)
FullCopy(kc, service, account) ==
    LET slot == SlotOf(service, account)
        found == lookup(kc, slot, NoFault)
        out == CopyOutput([i \in 1..1 |-> Free], slot, found, TRUE)
    IN [status |-> CopyStatus(found), value |-> Deref(kc, out.heap, out.ref)]

DeleteResult(kc, service, account) ==
    DeleteStatus(DeleteEffect(kc, SlotOf(service, account), NoFault).res)

\* the value the last call handed out
LastValue == Deref(keychain, bufs, last.value)

StoredAt(service, account) == keychain[SlotOf(service, account)]

\* the step is a call of the named entry point (last' is its record)
Called(op) == last' # last /\ last'.op = op

\* the entry of the key of the call, before the call
Stored == StoredAt(last'.service, last'.account)

\* the value the call hands out
Returned == Deref(keychain', bufs', last'.value)

\* the call before this one was the named one, on the same key
After(op) ==
    /\ last.op = op
    /\ last.service = last'.service /\ last.account = last'.account

(***************************************************************************)
(* Properties                                                              *)
(***************************************************************************)

\* C1: a copy with output of an existing entry, absent a backend fault,
\* always hands out a value whose bytes are the stored bytes: with
\* errSecSuccess when they are valid UTF-8 (they decode to a text whose
\* encoding is the stored bytes), with errSecDecode when they are not; it
\* never returns errSecItemNotFound and never hands out nothing.
C1_CopyOfExistingEntry ==
    [][(Called("Copy") /\ last'.wants /\ last'.fault = NoFault /\ Stored.present)
          => /\ last'.value # NilRef
             /\ Returned.present
             /\ Returned.bytes = Stored.bytes
             /\ last'.status =
                   (IF IsValidUTF8(Stored.bytes) THEN errSecSuccess ELSE errSecDecode)
             /\ IsValidUTF8(Stored.bytes)
                   => UTF8Encode(UTF8Decode(Returned.bytes)) = Stored.bytes]_vars

C1_Witness ==
    /\ last.op = "Copy" /\ last.wants /\ last.fault = NoFault
    /\ last.status = errSecDecode
    /\ LastValue.present
    /\ StoredAt(last.service, last.account).present
    /\ LastValue.bytes = StoredAt(last.service, last.account).bytes
    /\ ~IsValidUTF8(LastValue.bytes)

\* C2: a copy with output, absent a backend fault, that follows a successful
\* set of text t on the same key (whether that set created the entry or
\* replaced the text of a set before it) returns errSecSuccess and the UTF-8
\* bytes of t, which decode to t.
C2_CopyAfterSet ==
    [][(/\ Called("Copy") /\ last'.wants /\ last'.fault = NoFault
        /\ After("Set") /\ last.status = errSecSuccess)
          => /\ last'.status = errSecSuccess
             /\ Returned.present
             /\ Returned.bytes = UTF8Encode(last.password)
             /\ UTF8Decode(Returned.bytes) = last.password]_vars

C2_Witness ==
    /\ last.op = "Copy" /\ last.wants /\ last.prior = "set2"
    /\ last.status = errSecSuccess
    /\ LastValue.present
    /\ Len(LastValue.bytes) = 2

\* C3 as stated: an entry exists exactly when a set returned errSecSuccess
\* and no delete has returned errSecSuccess since.
C3_EntryOnlyFromSet ==
    \A slot \in Slots : keychain[slot].present <=> origin[slot] = "set"

\* C3, amended: an entry exists exactly when it was in the keychain before
\* the run or a set returned errSecSuccess, and no delete has returned
\* errSecSuccess since; absent a backend fault, a delete right after a
\* successful set returns errSecSuccess, and a copy right after that delete
\* returns errSecItemNotFound and no value.
C3_EntryFromSetOrBefore ==
    /\ [](\A slot \in Slots : keychain[slot].present <=> origin[slot] # "none")
    /\ [][/\ (/\ Called("Delete") /\ last'.fault = NoFault
              /\ After("Set") /\ last.status = errSecSuccess)
             => last'.status = errSecSuccess
          /\ (/\ Called("Copy") /\ last'.fault = NoFault
              /\ After("Delete") /\ last.status = errSecSuccess)
             => /\ last'.status = errSecItemNotFound
                /\ last'.value = NilRef]_vars

C3_Witness ==
    /\ last.op = "Copy" /\ last.prior = "delete"
    /\ last.status = errSecItemNotFound
    /\ origin[SlotOf(last.service, last.account)] = "none"
    /\ \E slot \in Slots : origin[slot] = "set"

\* C4: on a key without an entry, absent a backend fault, a copy returns
\* errSecItemNotFound and no value whether or not output is wanted, a delete
\* returns errSecItemNotFound, and neither changes the keychain or the
\* caller's values.
C4_NoEntry ==
    [][((Called("Copy") \/ Called("Delete"))
           /\ last'.fault = NoFault /\ ~Stored.present)
          => /\ last'.status = errSecItemNotFound
             /\ last'.value = NilRef
             /\ bufs' = bufs
             /\ keychain' = keychain]_vars

C4_Witness ==
    /\ last.op = "Delete" /\ last.status = errSecItemNotFound
    /\ ~StoredAt(last.service, last.account).present
    /\ \E slot \in Slots : keychain[slot].present

\* C5 as stated: a copy without output of an existing entry returns
\* errSecSuccess whatever the stored bytes.
C5_ProbeAlwaysSuccess ==
    [][(Called("Copy") /\ ~last'.wants /\ last'.fault = NoFault /\ Stored.present)
          => last'.status = errSecSuccess]_vars

\* C5, amended: a copy without output of an existing entry, absent a backend
\* fault, returns the status the copy with output returns (errSecSuccess
\* when the stored bytes are valid UTF-8, errSecDecode when they are not),
\* hands out no value and leaves the keychain and the caller's values as
\* they were, so that a copy with output returns the same after it as
\* before it.
C5_ProbeStatusOnly ==
    [][(Called("Copy") /\ ~last'.wants /\ last'.fault = NoFault /\ Stored.present)
          => /\ last'.status =
                   (IF IsValidUTF8(Stored.bytes) THEN errSecSuccess ELSE errSecDecode)
             /\ last'.value = NilRef
             /\ bufs' = bufs /\ held' = held
             /\ keychain' = keychain
             /\ FullCopy(keychain', last'.service, last'.account)
                   = FullCopy(keychain, last'.service, last'.account)]_vars

C5_Witness ==
    /\ last.op = "Copy" /\ last.wants /\ last.prior = "probe"
    /\ last.status = errSecDecode
    /\ LastValue.present
    /\ LastValue.bytes = StoredAt(last.service, last.account).bytes

\* C6: every value a copy hands out is a CFData that was not allocated
\* before the call, so it is neither the keychain's copy nor a value handed
\* out earlier, and the values the caller already holds stay as they were;
\* when the caller overwrites or releases a value, the keychain and the other
\* values it holds stay as they were, so the copy that follows returns the
\* stored bytes with the same status.
C6_ReturnedValueIsFresh ==
    [][/\ (Called("Copy") /\ last'.value # NilRef)
          => /\ last'.value.kind = "buf"
             /\ last'.value \notin held
             /\ ~bufs[last'.value.id].present
             /\ held' = held \cup {last'.value}
             /\ \A r \in held : Deref(keychain', bufs', r) = Deref(keychain, bufs, r)
       /\ (Called("Copy") /\ last'.value = NilRef)
          => bufs' = bufs /\ held' = held
       /\ (Called("Mutate") \/ Called("Release"))
          => /\ keychain' = keychain
             /\ \A k \in Keys :
                   FullCopy(keychain', k[1], k[2]) = FullCopy(keychain, k[1], k[2])
             /\ \A r \in held \ {last'.value} :
                   Deref(keychain', bufs', r) = Deref(keychain, bufs, r)
       /\ (/\ Called("Copy") /\ last'.wants
           /\ (After("Mutate") \/ After("Release")) /\ Stored.present)
          => /\ Returned = Stored
             /\ last'.status = FullCopy(keychain, last'.service, last'.account).status
      ]_vars

C6_Witness ==
    /\ last.op = "Copy" /\ last.wants /\ last.prior = "mutated"
    /\ last.status = errSecSuccess
    /\ LastValue.present
    /\ LastValue.bytes = <<195, 169>>
    /\ LastValue = StoredAt(last.service, last.account)
    /\ \E r \in held \ {last.value} :
          Deref(keychain, bufs, r) = Present(<<0, 0>>)

\* C7: a set, copy or delete on a key, whatever its outcome, leaves the
\* entry of every other key as it was (its existence and its bytes), so a
\* copy and a delete on the other key return the same after it as before it.
C7_OtherKeysUntouched ==
    [][(Called("Set") \/ Called("Copy") \/ Called("Delete"))
          => \A kb \in Keys \ {<<last'.service, last'.account>>} :
                /\ StoredAt(kb[1], kb[2])' = StoredAt(kb[1], kb[2])
                /\ FullCopy(keychain', kb[1], kb[2])
                      = FullCopy(keychain, kb[1], kb[2])
                /\ DeleteResult(keychain', kb[1], kb[2])
                      = DeleteResult(keychain, kb[1], kb[2])]_vars

C7_Witness ==
    /\ last.op = "Set" /\ last.status = errSecSuccess
    /\ last.service = "" /\ last.account = "a"
    /\ StoredAt("a", "").present
    /\ StoredAt("a", "").bytes # StoredAt("", "a").bytes
    /\ ~StoredAt("a", "a").present

\* C8: a set that does not return errSecSuccess leaves the keychain as it
\* was, and the copy with output that follows it on the same key, absent a
\* backend fault, returns what was stored before the set: the bytes of the
\* entry, or errSecItemNotFound when there was none.
C8_FailedSetChangesNothing ==
    [][/\ (Called("Set") /\ last'.status # errSecSuccess)
          => /\ keychain' = keychain
             /\ \A k \in Keys :
                   FullCopy(keychain', k[1], k[2]) = FullCopy(keychain, k[1], k[2])
       /\ (/\ Called("Copy") /\ last'.wants /\ last'.fault = NoFault
           /\ After("Set") /\ last.status # errSecSuccess)
          => IF Stored.present
             THEN last'.value # NilRef /\ Returned = Stored
             ELSE last'.status = errSecItemNotFound /\ last'.value = NilRef]_vars

C8_Witness ==
    /\ last.op = "Copy" /\ last.wants /\ last.prior = "setfail"
    /\ last.status = errSecSuccess
    /\ LastValue.present
    /\ LastValue.bytes = StoredAt(last.service, last.account).bytes
    /\ Len(LastValue.bytes) = 2

\* C9: when the keychain reports an error other than an absent entry, each
\* of the three calls returns errSecOther and a copy hands out no value; when
\* it reports an absent entry, copy and delete return errSecItemNotFound; a
\* set never returns errSecItemNotFound or errSecDecode; every status
\* returned is one of the four.
C9_StatusMapping ==
    [][(Called("Set") \/ Called("Copy") \/ Called("Delete"))
          => /\ last'.fault \in BackendErrors
                => last'.status = errSecOther /\ last'.value = NilRef
             /\ (/\ last'.op \in {"Copy", "Delete"}
                 /\ lookup(keychain, SlotOf(last'.service, last'.account),
                           last'.fault).res = "absent")
                => last'.status = errSecItemNotFound
             /\ last'.op = "Set"
                => last'.status \in {errSecSuccess, errSecOther}
             /\ last'.status \in Statuses]_vars

C9_Witness ==
    /\ last.op = "Copy" /\ last.wants
    /\ last.fault \in BackendErrors
    /\ last.status = errSecOther
    /\ last.value = NilRef
    /\ StoredAt(last.service, last.account).present

====
